---------------------------- MODULE Spec2Model ----------------------------
(***************************************************************************)
(* State-machine model of the LumiBrick firmware.                          *)
(*                                                                         *)
(* The repository holds two builds of the same sketch:                     *)
(*   src/lumibrick.ino       version "1.0.0-alpha.11"  (build "alpha11")   *)
(*   src/unnamed/part_000    version "1.0.0-alpha.15"  (build "alpha15")   *)
(* They share most functions; where they differ (the wait loops of         *)
(* setupWiFi and loop, the LED handlers) the model has one action per      *)
(* build, guarded by the variable build.                                   *)
(*                                                                         *)
(* Time is millis(): it advances by delay(500) inside the blocking wait    *)
(* loops and by LoopTickMs per observed iteration of loop().               *)
(***************************************************************************)
EXTENDS Integers, Sequences, FiniteSets, TLC

(* ------------------------------ bounds -------------------------------- *)
\* environment events in one run: button presses, control requests, link
\* losses
MaxEvents == 2
\* observed iterations of loop() per boot
MaxIdleTicks == 8
\* iterations explored of a wait loop that has no exit of its own
MaxPolls == 62

(* ------------------------- program constants -------------------------- *)
EEPROM_SIZE == 512
NUM_LEDS == 21
ATTACH_TIMEOUT_MS == 30000
POLL_DELAY_MS == 500
CONNECT_RETRIES == 20
HOLD_MS == 3000
interval == 500
SETUP_DELAY_MS == 100
HTTP_CODE_OK == 200

Builds == {"alpha11", "alpha15"}

\* the period at which the model observes loop(): one delay() quantum
LoopTickMs == POLL_DELAY_MS
\* the physical hold time is tracked up to just past the threshold
HeldCap == HOLD_MS + 2 * POLL_DELAY_MS

Min(a, b) == IF a < b THEN a ELSE b

(* ------------------------------ strings ------------------------------- *)
\* Strings are sequences of non-zero bytes (an Arduino String built from a
\* C string holds no NUL).
Str(n, seed) == [i \in 1..n |-> ((seed + i) % 255) + 1]
S_home == <<104, 111, 109, 101>>
S_cafe == <<99, 97, 102, 101, 45, 103, 117, 101, 115, 116>>
S_secret123 == <<115, 101, 99, 114, 101, 116, 49, 50, 51>>
S_null == <<110, 117, 108, 108>>
S_url == <<104, 116, 116, 112, 58, 47, 47, 117>>
NoCreds == [ssid |-> <<>>, password |-> <<>>]
\* a request without arguments
NoArgs == [k \in {} |-> <<>>]
\* no /led response in this iteration
NoResponse == [k \in {} |-> <<>>]
Creds(s, p) == [ssid |-> s, password |-> p]

\* String(const char*): the bytes before the first NUL
CStr(buf) ==
  LET z == {i \in 1..Len(buf) : buf[i] = 0}
  IN IF z = {} THEN buf
     ELSE SubSeq(buf, 1, (CHOOSE i \in z : \A j \in z : i <= j) - 1)

(* ------------------------------ the SSID ------------------------------ *)
\* "HomeVision_LumiBrick_" (alpha.11) and "HomeVision_Lumibrick_" (alpha.15)
SsidPrefix(b) ==
  <<72, 111, 109, 101, 86, 105, 115, 105, 111, 110, 95, 76, 117, 109, 105,
    IF b = "alpha11" THEN 66 ELSE 98, 114, 105, 99, 107, 95>>

\* one hexadecimal digit, upper case, as WiFi.macAddress() prints it
HexDigit(n) == IF n < 10 THEN 48 + n ELSE 55 + n
HexByte(v) == <<HexDigit(v \div 16), HexDigit(v % 16)>>
Colon == 58

\* WiFi.macAddress(): "XX:XX:XX:XX:XX:XX"
MacAddress(m) ==
  HexByte(m[1]) \o <<Colon>> \o HexByte(m[2]) \o <<Colon>> \o
  HexByte(m[3]) \o <<Colon>> \o HexByte(m[4]) \o <<Colon>> \o
  HexByte(m[5]) \o <<Colon>> \o HexByte(m[6])

\* String::replace(":", "")
RemoveColons(str) == SelectSeq(str, LAMBDA ch : ch # Colon)
\* String::substring(from): the characters from index from (0-based) on
Substring(str, from) == SubSeq(str, from + 1, Len(str))
\* String::toCharArray(buf, bufsize): at most bufsize - 1 characters
ToCharArray(str, bufsize) == SubSeq(str, 1, Min(bufsize - 1, Len(str)))

createUniqueSSID(b, m) ==
  SsidPrefix(b) \o Substring(RemoveColons(MacAddress(m)), 8)

\* what setup() leaves in ap_ssid
SetupApSsid(b, m) ==
  ToCharArray(createUniqueSSID(b, m), Len(createUniqueSSID(b, m)) + 1)

\* the hardware addresses explored: one vendor prefix, every combination of
\* the sample bytes in the last three places
MacBytes == {0, 10, 171, 255}
Macs ==
  {<<36, 10, 196, x, y, z>> : x \in MacBytes, y \in MacBytes, z \in MacBytes}
DeviceMac == <<36, 10, 196, 10, 171, 255>>

(* ------------------------------ EEPROM -------------------------------- *)
Addr == 0..(EEPROM_SIZE - 1)
ZeroStore == [a \in Addr |-> 0]
ErasedFlash == [a \in Addr |-> 255]

\* EEPROMClass::read: 0 for an address outside the region
EepromRead(store, a) == IF a \in Addr THEN store[a] ELSE 0

\* the indices loadCredentials passes to EEPROM.read
LoadReadIndices(store) ==
  LET sl == EepromRead(store, 0)
      pl == EepromRead(store, 1 + sl)
  IN {0} \cup (1..sl) \cup {1 + sl} \cup ((2 + sl)..(1 + sl + pl))

LoadCredentials(store) ==
  LET sl == EepromRead(store, 0)
      ssidBuffer == [i \in 1..sl |-> EepromRead(store, i)]
      pl == EepromRead(store, 1 + sl)
      passwordBuffer == [i \in 1..pl |-> EepromRead(store, 1 + sl + i)]
  IN Creds(CStr(ssidBuffer), CStr(passwordBuffer))

\* a variant that leaves the passphrase length byte as it was
SaveCredentialsNoPasswordLength(store, ssid, password) ==
  LET sl == Len(ssid)
      pl == Len(password)
  IN [a \in Addr |->
        IF a = 0 THEN sl % 256
        ELSE IF a \in 1..sl THEN ssid[a] % 256
        ELSE IF a \in (2 + sl)..(1 + sl + pl) THEN password[a - 1 - sl] % 256
        ELSE store[a]]

\* saveCredentials writes the two length bytes and the two strings at
\* pairwise distinct addresses; a write outside the region is dropped and a
\* value is stored as uint8_t.
SaveCredentials(store, ssid, password) ==
  LET sl == Len(ssid)
      pl == Len(password)
  IN [a \in Addr |->
        IF a = 0 THEN sl % 256
        ELSE IF a \in 1..sl THEN ssid[a] % 256
        ELSE IF a = 1 + sl THEN pl % 256
        ELSE IF a \in (2 + sl)..(1 + sl + pl) THEN password[a - 1 - sl] % 256
        ELSE store[a]]

(* ------------------------------- LEDs --------------------------------- *)
Pixels == 0..(NUM_LEDS - 1)
Off == <<0, 0, 0, 0>>
Green == <<0, 255, 0, 0>>
Yellow == <<255, 255, 0, 0>>
Blue == <<0, 0, 255, 0>>
Solid(c) == [i \in Pixels |-> c]

\* Adafruit_NeoPixel::setPixelColor under setBrightness(b): b = 255 stores
\* the value as it is, any other b stores (value * (b + 1)) >> 8
Scaled(c, b) ==
  IF b = 255 THEN c ELSE [k \in DOMAIN c |-> (c[k] * (b + 1)) \div 256]

(* ------------------------------- state -------------------------------- *)
VARIABLES
  build,                 \* which of the two sketches runs
  mac,                   \* the station MAC address, six bytes
  ap_ssid,               \* char ap_ssid[32], as a string
  pc,                    \* where the single thread of control is
  now,                   \* millis()
  eeprom,                \* the 512-byte EEPROM region
  home_ssid, home_password,
  isAPMode,
  apActive,              \* WiFi soft access point is up
  staConfig,             \* credentials last given to WiFi.begin
  linkUp,                \* WiFi.status() == WL_CONNECTED
  joinIn,                \* ms until the pending association completes; 0: none
  buttonPressStartTime, credentialsCleared,
  button,                \* the physical button: "up" or "down"
  heldFor,               \* ms the button has been down without a release
  erasesThisPress,       \* clearCredentials calls during the current press
  previousMillis, ledState, strip,
  ledIsOn, ledColor, ledBrightness,
  retries,
  attemptStart,          \* startAttemptTime / reconnectAttemptTime
  calls,                 \* library calls of this iteration of loop(), in order
  submitted,             \* credentials of the /connect request being served
  request,               \* the arguments of the request being served
  ledResponse,           \* the body of the response to a /led request
  ota,                   \* the update session of this performOTAUpdate
  events,                \* environment events so far
  budget,                \* environment events explored in this run
  idleTicks              \* iterations of loop() observed since boot

ramVars == <<ap_ssid, home_ssid, home_password, isAPMode, buttonPressStartTime,
             credentialsCleared, previousMillis, ledState, ledIsOn, ledColor,
             ledBrightness, retries, attemptStart>>
credVars == <<home_ssid, home_password>>
wifiVars == <<apActive, staConfig>>
linkVars == <<linkUp, joinIn>>
monitorVars == <<buttonPressStartTime, credentialsCleared>>
physVars == <<button, erasesThisPress>>
blinkVars == <<previousMillis, ledState, strip>>
ledVars == <<ledIsOn, ledColor, ledBrightness>>
\* what the model records of the request being served
served == <<submitted, request, ledResponse>>
fixed == <<build, mac, budget>>

vars == <<build, mac, ap_ssid, pc, now, eeprom, home_ssid, home_password,
          isAPMode, apActive,
          staConfig, linkUp, joinIn, buttonPressStartTime,
          credentialsCleared, button, heldFor, erasesThisPress, previousMillis,
          ledState, strip, ledIsOn, ledColor, ledBrightness, retries,
          attemptStart, calls, submitted, request, ledResponse, ota, events,
          idleTicks>>

NoOta == [httpCode |-> 0, declared |-> 0, written |-> 0, begun |-> FALSE,
          endCalled |-> FALSE, endOk |-> FALSE]

\* how an association started by WiFi.begin (or by the stack's own
\* reconnect) turns out: 0 = the link does not come up, d = up after d ms
JoinDelays == {2 * POLL_DELAY_MS}
JoinOutcomes == {0} \cup JoinDelays

\* the stores a device can boot with
InitialStores ==
  { ZeroStore,
    SaveCredentials(ZeroStore, S_home, S_secret123),
    SaveCredentials(ZeroStore, S_cafe, <<>>) }

\* the values of the globals after a CPU reset (lines 11-38)
RamInit ==
  /\ ap_ssid' = <<>>
  /\ home_ssid' = <<>>
  /\ home_password' = <<>>
  /\ isAPMode' = FALSE
  /\ buttonPressStartTime' = 0
  /\ credentialsCleared' = FALSE
  /\ previousMillis' = 0
  /\ ledState' = FALSE
  /\ ledIsOn' = FALSE
  /\ ledColor' = Off
  /\ ledBrightness' = 255
  /\ retries' = 0
  /\ attemptStart' = 0

\* power-on with a budget of b environment events
InitDevice(b, macs) ==
  /\ build \in Builds
  /\ mac \in macs
  /\ ap_ssid = <<>>
  /\ pc = "boot"
  /\ now = 0
  /\ eeprom \in InitialStores
  /\ home_ssid = <<>>
  /\ home_password = <<>>
  /\ isAPMode = FALSE
  /\ apActive = FALSE
  /\ staConfig = NoCreds
  /\ linkUp = FALSE
  /\ joinIn = 0
  /\ buttonPressStartTime = 0
  /\ credentialsCleared = FALSE
  /\ button = "up"
  /\ heldFor = 0
  /\ erasesThisPress = 0
  /\ previousMillis = 0
  /\ ledState = FALSE
  /\ strip = Solid(Off)
  /\ ledIsOn = FALSE
  /\ ledColor = Off
  /\ ledBrightness = 255
  /\ retries = 0
  /\ attemptStart = 0
  /\ calls = <<>>
  /\ submitted = NoCreds
  /\ request = NoArgs
  /\ ledResponse = NoResponse
  /\ ota = NoOta
  /\ events = 0
  /\ budget = b
  /\ idleTicks = 0

InitWith(b) == InitDevice(b, {DeviceMac})

Init == InitWith(MaxEvents)

(* ------------------------ time and environment ------------------------ *)
HeldAfter(d) == IF button = "down" THEN Min(heldFor + d, HeldCap) ELSE 0

\* d ms pass: millis() advances, a held button has been held d ms longer,
\* a pending association completes when its time is up
Pass(d) ==
  /\ now' = now + d
  /\ heldFor' = HeldAfter(d)
  /\ IF joinIn > 0 /\ joinIn <= d
       THEN linkUp' = TRUE /\ joinIn' = 0
       ELSE linkUp' = linkUp /\ joinIn' = (IF joinIn > 0 THEN joinIn - d ELSE 0)

\* the places where the thread of control spends time
Waiting == {"loop_button", "setup_attach", "recover", "connect_wait", "ota_stream"}

ButtonPress ==
  /\ pc \in Waiting
  /\ button = "up"
  /\ events < budget
  /\ button' = "down"
  /\ heldFor' = 0
  /\ erasesThisPress' = 0
  /\ events' = events + 1
  /\ UNCHANGED <<fixed, pc, now, eeprom, ramVars, wifiVars, linkVars, strip,
                 calls, served, ota, idleTicks>>

ButtonRelease ==
  /\ pc \in Waiting
  /\ button = "down"
  /\ button' = "up"
  /\ heldFor' = 0
  /\ UNCHANGED <<fixed, pc, now, eeprom, ramVars, wifiVars, linkVars, strip,
                 calls, served, ota, events, idleTicks, erasesThisPress>>

\* the network drops the station; the WiFi stack may re-associate by itself
LinkDrop ==
  /\ pc = "loop_button"
  /\ linkUp
  /\ events < budget
  /\ events' = events + 1
  /\ linkUp' = FALSE
  /\ joinIn' \in JoinOutcomes
  /\ UNCHANGED <<fixed, pc, now, eeprom, ramVars, wifiVars, strip, calls,
                 served, ota, idleTicks, physVars, heldFor>>

\* the network drops the station for longer than the reconnect timeout and
\* is reachable again after that
LinkDropLong ==
  /\ pc = "loop_button"
  /\ linkUp
  /\ events < budget
  /\ events' = events + 1
  /\ linkUp' = FALSE
  /\ joinIn' = ATTACH_TIMEOUT_MS + 2 * POLL_DELAY_MS
  /\ UNCHANGED <<fixed, pc, now, eeprom, ramVars, wifiVars, strip, calls,
                 served, ota, idleTicks, physVars, heldFor>>

(* ------------------------------ restart ------------------------------- *)
\* esp_restart / ESP.restart: the CPU resets, RAM is re-initialised, the
\* radio is down, the EEPROM and the physical button are what they were
Restart ==
  /\ pc' = "boot"
  /\ now' = 0
  /\ RamInit
  /\ apActive' = FALSE
  /\ staConfig' = NoCreds
  /\ linkUp' = FALSE
  /\ joinIn' = 0
  /\ strip' = strip
  /\ idleTicks' = 0
  /\ UNCHANGED <<fixed, button, heldFor, served, events>>

\* every pixel set to colour c and shown, under the strip's brightness
Shown(c) == Solid(Scaled(c, ledBrightness))

(* ------------------------------- blink -------------------------------- *)
\* blinkLED / blinkWiFiAttemptLED called when millis() = t
BlinkAt(t, onColour, offColour) ==
  IF t - previousMillis >= interval
    THEN /\ previousMillis' = t
         /\ ledState' = ~ledState
         /\ strip' = Shown(IF ~ledState THEN onColour ELSE offColour)
    ELSE UNCHANGED blinkVars

blinkLED(t) == BlinkAt(t, Yellow, Green)
blinkWiFiAttemptLED(t) == BlinkAt(t, Blue, Off)

(* ----------------------------- startAPMode ---------------------------- *)
\* MDNS.begin failing leaves the thread in while (1) { delay(1000); }
startAPMode(mdnsOk, next) ==
  /\ isAPMode' = TRUE
  /\ apActive' = TRUE
  /\ pc' = IF mdnsOk THEN next ELSE "hang"

(* -------------------------------- setup ------------------------------- *)
BootAttaches(c) == Len(c.ssid) > 0 /\ Len(c.password) > 0

SetupToAP ==
  /\ pc = "boot"
  /\ ap_ssid' = SetupApSsid(build, mac)
  /\ ~BootAttaches(LoadCredentials(eeprom))
  /\ home_ssid' = LoadCredentials(eeprom).ssid
  /\ home_password' = LoadCredentials(eeprom).password
  /\ \E mdnsOk \in BOOLEAN : startAPMode(mdnsOk, "loop_button")
  /\ now' = SETUP_DELAY_MS
  /\ strip' = Solid(Off)
  /\ calls' = <<"loadCredentials", "softAP", "MDNS.begin">>
  /\ ota' = NoOta
  /\ heldFor' = HeldAfter(SETUP_DELAY_MS)
  /\ UNCHANGED <<fixed, eeprom, staConfig, linkVars, monitorVars, physVars,
                 previousMillis, ledState, ledVars, retries,
                 attemptStart, served, events, idleTicks>>

SetupToWiFi ==
  /\ pc = "boot"
  /\ ap_ssid' = SetupApSsid(build, mac)
  /\ BootAttaches(LoadCredentials(eeprom))
  /\ home_ssid' = LoadCredentials(eeprom).ssid
  /\ home_password' = LoadCredentials(eeprom).password
  /\ staConfig' = LoadCredentials(eeprom)
  /\ linkUp' = FALSE
  /\ joinIn' \in JoinOutcomes
  /\ now' = SETUP_DELAY_MS
  /\ attemptStart' = SETUP_DELAY_MS
  /\ strip' = Solid(Off)
  /\ calls' = <<"loadCredentials", "WiFi.begin">>
  /\ ota' = NoOta
  /\ pc' = "setup_attach"
  /\ heldFor' = HeldAfter(SETUP_DELAY_MS)
  /\ UNCHANGED <<fixed, eeprom, isAPMode, apActive, monitorVars,
                 physVars, previousMillis, ledState, ledVars, retries,
                 served, events, idleTicks>>

(* ------------------------------ setupWiFi ----------------------------- *)
\* a repeated status poll is logged once
Log(c, e) == IF c # <<>> /\ c[Len(c)] = e THEN c ELSE Append(c, e)

PollFrame ==
  UNCHANGED <<fixed, ap_ssid, eeprom, credVars, isAPMode, wifiVars,
              monitorVars, physVars, ledVars, attemptStart, served, ota,
              events, idleTicks>>

\* one iteration of: while (status != WL_CONNECTED && millis() - start < 30000)
SetupWiFiPoll ==
  /\ pc = "setup_attach"
  /\ build = "alpha11"
  /\ ~linkUp
  /\ now - attemptStart < ATTACH_TIMEOUT_MS
  /\ Pass(POLL_DELAY_MS)
  /\ blinkWiFiAttemptLED(now + POLL_DELAY_MS)
  /\ calls' = Log(calls, "WiFi.status")
  /\ UNCHANGED <<pc, retries>>
  /\ PollFrame

\* one iteration of: while (status != WL_CONNECTED)
SetupWiFiPollUnbounded ==
  /\ pc = "setup_attach"
  /\ build = "alpha15"
  /\ ~linkUp
  /\ now - attemptStart < MaxPolls * POLL_DELAY_MS
  /\ Pass(POLL_DELAY_MS)
  /\ blinkWiFiAttemptLED(now + POLL_DELAY_MS)
  /\ calls' = Log(calls, "WiFi.status")
  /\ UNCHANGED <<pc, retries>>
  /\ PollFrame

SetupWiFiConnected ==
  /\ pc = "setup_attach"
  /\ linkUp
  /\ strip' = Shown(Green)
  /\ isAPMode' = FALSE
  /\ calls' = calls \o <<"MDNS.begin", "strip.show">>
  /\ pc' = "loop_button"
  /\ UNCHANGED <<fixed, ap_ssid, now, eeprom, credVars, apActive, staConfig, linkVars,
                 monitorVars, physVars, heldFor, previousMillis, ledState,
                 ledVars, retries, attemptStart, served, ota, events,
                 idleTicks>>

SetupWiFiTimeout ==
  /\ pc = "setup_attach"
  /\ build = "alpha11"
  /\ ~linkUp
  /\ now - attemptStart >= ATTACH_TIMEOUT_MS
  /\ \E mdnsOk \in BOOLEAN : startAPMode(mdnsOk, "loop_button")
  /\ calls' = calls \o <<"softAP", "MDNS.begin">>
  /\ UNCHANGED <<fixed, ap_ssid, now, eeprom, credVars, staConfig, linkVars,
                 monitorVars, physVars, heldFor, blinkVars, ledVars, retries,
                 attemptStart, served, ota, events, idleTicks>>

(* ------------------- monitorCredentialsClearButton -------------------- *)
PressStart == IF buttonPressStartTime = 0 THEN now ELSE buttonPressStartTime

EraseDue ==
  button = "down" /\ ~credentialsCleared /\ now - PressStart > HOLD_MS

\* a variant that zeroes only the ssid length byte
clearCredentialsLengthByteOnly ==
  /\ eeprom' = [eeprom EXCEPT ![0] = 0]
  /\ calls' = <<"clearCredentials", "EEPROM.commit", "esp_restart">>
  /\ Restart

\* clearCredentials: 512 zero writes, commit, esp_restart
clearCredentials ==
  /\ eeprom' = ZeroStore
  /\ calls' = <<"clearCredentials", "EEPROM.commit", "esp_restart">>
  /\ Restart

MonitorButtonErase ==
  /\ pc = "loop_button"
  /\ idleTicks < MaxIdleTicks
  /\ EraseDue
  /\ erasesThisPress' = Min(erasesThisPress + 1, 2)
  /\ clearCredentials
  /\ UNCHANGED ota

MonitorButton ==
  /\ pc = "loop_button"
  /\ idleTicks < MaxIdleTicks
  /\ ~EraseDue
  /\ IF button = "down"
       THEN buttonPressStartTime' = PressStart /\ UNCHANGED credentialsCleared
       ELSE buttonPressStartTime' = 0 /\ credentialsCleared' = FALSE
  /\ calls' = <<>>
  /\ submitted' = NoCreds
  /\ request' = NoArgs
  /\ ledResponse' = NoResponse
  /\ ota' = NoOta
  /\ pc' = "loop_client"
  /\ UNCHANGED <<fixed, ap_ssid, now, eeprom, credVars, isAPMode, wifiVars, linkVars,
                 physVars, heldFor, blinkVars, ledVars, retries, attemptStart,
                 events, idleTicks>>

(* ------------------------ server.handleClient ------------------------- *)
NoRequest ==
  /\ pc = "loop_client"
  /\ pc' = "loop_net"
  /\ UNCHANGED <<fixed, now, eeprom, ramVars, wifiVars, linkVars, physVars,
                 heldFor, strip, calls, served, ota, events, idleTicks>>

\* the credentials an operator submits
ConnectCreds == {Creds(S_home, S_secret123), Creds(S_cafe, <<>>)}
FormCreds == {Creds(S_home, S_secret123)}

\* the JSON documents a /connect body can hold: the credentials under the
\* members ssid and password, or with the passphrase under another name
ConnectBodies ==
  {[ssid |-> c.ssid, password |-> c.password] : c \in ConnectCreds}
    \cup {[ssid |-> S_home, passphrase |-> S_secret123]}

\* a variant that reads the member ssid whatever the key
JsonAsStringOfSsid(doc, key) == doc["ssid"]

\* doc[key].as<String>(): the member's string; "null" for a missing member
JsonAsString(doc, key) == IF key \in DOMAIN doc THEN doc[key] ELSE S_null

\* a variant that starts the attempt before the credentials are saved
ConnectCallsAttemptFirst(sent) ==
  sent \o <<"WiFi.begin", "softAPdisconnect", "saveCredentials", "EEPROM.commit">>

\* the calls of handleConnect from the response to WiFi.begin, in order
ConnectCalls(sent) ==
  sent \o <<"saveCredentials", "EEPROM.commit", "softAPdisconnect", "WiFi.begin">>

\* handleConnect up to the wait loop; sent is what it has sent before
handleConnectAttach(args, c, sent) ==
  /\ home_ssid' = c.ssid
  /\ home_password' = c.password
  /\ eeprom' = SaveCredentials(eeprom, c.ssid, c.password)
  /\ apActive' = FALSE
  /\ isAPMode' = FALSE
  /\ staConfig' = c
  /\ linkUp' = FALSE
  /\ joinIn' \in JoinOutcomes
  /\ retries' = 0
  /\ calls' = ConnectCalls(sent)
  /\ submitted' = c
  /\ request' = args
  /\ ledResponse' = ledResponse
  /\ events' = events + 1
  /\ pc' = "connect_wait"
  /\ UNCHANGED <<fixed, ap_ssid, now, monitorVars, physVars, heldFor, blinkVars,
                 ledVars, attemptStart, ota, idleTicks>>

\* POST /connect with a JSON body that parses
HandleConnectJson ==
  /\ pc = "loop_client"
  /\ events < budget
  /\ \E doc \in ConnectBodies :
       handleConnectAttach([uri |-> "/connect", plain |-> doc],
                           Creds(JsonAsString(doc, "ssid"),
                                 JsonAsString(doc, "password")),
                           <<"send:200">>)

\* POST /connect with form fields ssid and password
HandleConnectForm ==
  /\ pc = "loop_client"
  /\ events < budget
  /\ \E c \in FormCreds :
       handleConnectAttach([uri |-> "/connect", ssid |-> c.ssid,
                            password |-> c.password], c, <<>>)

\* POST /connect with a body that is not JSON, or with no body and a field
\* missing
HandleConnectRejected ==
  /\ pc = "loop_client"
  /\ events < budget
  /\ events' = events + 1
  /\ calls' = <<"send:400">>
  /\ request' = [uri |-> "/connect"]
  /\ ledResponse' = ledResponse
  /\ pc' = "loop_net"
  /\ UNCHANGED <<fixed, now, eeprom, ramVars, wifiVars, linkVars, physVars,
                 heldFor, strip, submitted, ota, idleTicks>>

\* one iteration of: while (status != WL_CONNECTED && retries < 20)
ConnectPoll ==
  /\ pc = "connect_wait"
  /\ ~linkUp
  /\ retries < CONNECT_RETRIES
  /\ Pass(POLL_DELAY_MS)
  /\ retries' = retries + 1
  /\ calls' = Log(calls, "WiFi.status")
  /\ UNCHANGED <<pc, blinkVars>>
  /\ PollFrame

ConnectSucceeded ==
  /\ pc = "connect_wait"
  /\ linkUp
  /\ strip' = Shown(Green)
  /\ calls' = calls \o <<"MDNS.begin", "strip.show">>
  /\ pc' = "loop_net"
  /\ UNCHANGED <<fixed, ap_ssid, now, eeprom, credVars, isAPMode, apActive, staConfig,
                 linkVars, monitorVars, physVars, heldFor, previousMillis,
                 ledState, ledVars, retries, attemptStart, served, ota,
                 events, idleTicks>>

\* a variant in which a failed attempt also zeroes the store
ConnectFailedForgets ==
  /\ pc = "connect_wait"
  /\ ~linkUp
  /\ retries >= CONNECT_RETRIES
  /\ isAPMode' = TRUE
  /\ eeprom' = ZeroStore
  /\ pc' = "loop_net"
  /\ UNCHANGED <<fixed, ap_ssid, now, credVars, wifiVars, linkVars, monitorVars,
                 physVars, heldFor, blinkVars, ledVars, retries, attemptStart,
                 calls, served, ota, events, idleTicks>>

ConnectFailed ==
  /\ pc = "connect_wait"
  /\ ~linkUp
  /\ retries >= CONNECT_RETRIES
  /\ isAPMode' = TRUE
  /\ pc' = "loop_net"
  /\ UNCHANGED <<fixed, ap_ssid, now, eeprom, credVars, wifiVars, linkVars, monitorVars,
                 physVars, heldFor, blinkVars, ledVars, retries, attemptStart,
                 calls, served, ota, events, idleTicks>>

(* -------------------------------- /led -------------------------------- *)
\* constrain(x, lo, hi) and map(x, inMin, inMax, outMin, outMax) of Arduino
Constrain(x, lo, hi) == IF x < lo THEN lo ELSE IF x > hi THEN hi ELSE x
Map(x, inMin, inMax, outMin, outMax) ==
  ((x - inMin) * (outMax - outMin)) \div (inMax - inMin) + outMin

\* the colour members a request can carry
ColourDocs == {[r |-> 255, g |-> 0, b |-> 0],
               [r |-> 300, g |-> 20, b |-> 30, w |-> 40]}
\* the brightness values a request can carry, in percent
BrightnessLevels == {0, 50, 100}
\* the JSON documents a POST /led body can hold
LedBodies ==
  {[state |-> "on"], [state |-> "off"], [state |-> "off", brightness |-> 50]}
    \cup {[brightness |-> b] : b \in BrightnessLevels}
    \cup {[color |-> c] : c \in ColourDocs}
    \cup {[state |-> "off", color |-> c] : c \in ColourDocs}

\* bodies with a value the interface does not define: an unknown state, a
\* brightness above 100, a colour channel above 255
MalformedLedBodies ==
  {[state |-> "blink"], [brightness |-> 150],
   [color |-> [r |-> 300, g |-> 20, b |-> 30, w |-> 40]]}
\* what deserializeJson leaves of a body that is not JSON
BadJson == [error |-> "InvalidInput"]

\* strip.Color(r, g, b, w): each channel is cast to uint8_t
Color(c) == [k \in DOMAIN c |-> c[k] % 256]

\* alpha.15: the members of color that are present, each constrained
ColourSet15(doc) ==
  <<IF "r" \in DOMAIN doc THEN Constrain(doc["r"], 0, 255) ELSE ledColor[1],
    IF "g" \in DOMAIN doc THEN Constrain(doc["g"], 0, 255) ELSE ledColor[2],
    IF "b" \in DOMAIN doc THEN Constrain(doc["b"], 0, 255) ELSE ledColor[3],
    IF "w" \in DOMAIN doc THEN Constrain(doc["w"], 0, 255) ELSE ledColor[4]>>

\* the body handleLEDStatus sends
LedStatus(b, isOn, colour, brightness) ==
  IF b = "alpha11"
    THEN [isOn |-> isOn, color |-> SubSeq(colour, 1, 3)]
    ELSE [isOn |-> isOn, brightness |-> Map(brightness, 0, 255, 0, 100),
          color |-> colour]

LedMessage(text) == [status |-> "success", message |-> text]
LedError(text) == [status |-> "error", message |-> text]

LedReply(code, body) ==
  /\ calls' = <<code>>
  /\ ledResponse' = body

\* handleLEDControl of alpha.11 on a body that parses to doc
handleLEDControl11(doc) ==
  IF "state" \in DOMAIN doc
    THEN IF doc["state"] = "on"
      THEN /\ ledIsOn' = TRUE
           /\ strip' = Solid(Color(ledColor))
           /\ UNCHANGED <<ledColor, ledBrightness>>
           /\ LedReply("send:200", LedMessage("LEDs turned on"))
      ELSE IF doc["state"] = "off"
      THEN /\ ledIsOn' = FALSE
           /\ strip' = Solid(Off)
           /\ UNCHANGED <<ledColor, ledBrightness>>
           /\ LedReply("send:200", LedMessage("LEDs turned off"))
      ELSE /\ UNCHANGED <<ledVars, strip>>
           /\ LedReply("send:400", LedError("Invalid state value"))
    ELSE IF "color" \in DOMAIN doc
    THEN IF {"r", "g", "b"} \subseteq DOMAIN doc["color"]
      THEN /\ ledColor' = <<doc["color"]["r"], doc["color"]["g"],
                            doc["color"]["b"], 0>>
           /\ strip' = IF ledIsOn THEN Solid(Color(ledColor')) ELSE strip
           /\ UNCHANGED <<ledIsOn, ledBrightness>>
           /\ LedReply("send:200", LedMessage("LED color changed"))
      ELSE /\ UNCHANGED <<ledVars, strip>>
           /\ LedReply("send:400", LedError("Invalid color values"))
    ELSE /\ UNCHANGED <<ledVars, strip>>
         /\ LedReply("send:400", LedError("No valid parameter found"))

\* handleLEDControl of alpha.15 on a body that parses to doc: brightness
\* first, then state (off returns), then colour, then the strip
handleLEDControl15(doc) ==
  LET brightness ==
        IF "brightness" \in DOMAIN doc
          THEN Map(Constrain(doc["brightness"], 0, 100), 0, 100, 0, 255)
          ELSE ledBrightness
      state == IF "state" \in DOMAIN doc THEN doc["state"] ELSE "none"
      isOn == (state = "on") \/ ledIsOn
      colour == IF "color" \in DOMAIN doc THEN ColourSet15(doc["color"])
                ELSE ledColor
      shouldUpdateLEDs ==
        "brightness" \in DOMAIN doc \/ state = "on" \/ "color" \in DOMAIN doc
  IN IF state = "off"
       THEN /\ ledBrightness' = brightness
            /\ ledIsOn' = FALSE
            /\ ledColor' = ledColor
            /\ strip' = Solid(Off)
            /\ LedReply("send:200", LedMessage("LEDs turned off"))
       ELSE /\ ledBrightness' = brightness
            /\ ledIsOn' = isOn
            /\ ledColor' = colour
            /\ strip' = IF shouldUpdateLEDs /\ isOn
                          THEN Solid(Scaled(Color(colour), brightness))
                          ELSE strip
            /\ LedReply("send:200",
                        [status |-> "success",
                         state |-> IF isOn THEN "on" ELSE "off",
                         brightness |-> Map(brightness, 0, 255, 0, 100),
                         color |-> colour])

handleLEDControl(doc) ==
  IF build = "alpha11" THEN handleLEDControl11(doc) ELSE handleLEDControl15(doc)

\* what a /led request leaves alone
LedFrame ==
  UNCHANGED <<fixed, ap_ssid, now, eeprom, credVars, isAPMode, wifiVars,
              linkVars, monitorVars, physVars, heldFor, previousMillis,
              ledState, retries, attemptStart, submitted, ota, idleTicks>>

\* POST /led with a JSON body
HandleLEDControl ==
  /\ pc = "loop_client"
  /\ events < budget
  /\ events' = events + 1
  /\ \E doc \in LedBodies \cup MalformedLedBodies :
       /\ request' = [uri |-> "/led", plain |-> doc]
       /\ handleLEDControl(doc)
  /\ pc' = "loop_net"
  /\ LedFrame

\* POST /led with a body that is not JSON
HandleLEDControlBadJson ==
  /\ pc = "loop_client"
  /\ events < budget
  /\ events' = events + 1
  /\ request' = [uri |-> "/led", plain |-> BadJson]
  /\ LedReply("send:400", LedError("Invalid JSON"))
  /\ pc' = "loop_net"
  /\ UNCHANGED <<ledVars, strip>>
  /\ LedFrame

\* POST /led without a body
HandleLEDControlNoBody ==
  /\ pc = "loop_client"
  /\ events < budget
  /\ events' = events + 1
  /\ request' = [uri |-> "/led"]
  /\ LedReply("send:400", LedError("No JSON body found"))
  /\ pc' = "loop_net"
  /\ UNCHANGED <<ledVars, strip>>
  /\ LedFrame

\* GET /led
HandleLEDStatus ==
  /\ pc = "loop_client"
  /\ events < budget
  /\ events' = events + 1
  /\ request' = [uri |-> "/led", method |-> "GET"]
  /\ LedReply("send:200", LedStatus(build, ledIsOn, ledColor, ledBrightness))
  /\ pc' = "loop_net"
  /\ UNCHANGED <<ledVars, strip>>
  /\ LedFrame

(* --------------------------- firmware update -------------------------- *)
\* what the server an update is fetched from can answer
HttpCodes == {HTTP_CODE_OK, 404}
\* Content-Length: absent (-1), zero, or the size of the image
ContentLengths == {-1, 0, 1000}
\* bytes Update.writeStream gets out of a stream declared to hold n
WrittenOf(n) == {0, n - (n \div 5), n}
\* how long the download blocks
DownloadMs == {8 * POLL_DELAY_MS}

\* UpdateClass::end(): false unless every declared byte was written and the
\* image verifies
UpdateEnd(written, declared, verifyOk) == written = declared /\ verifyOk
UpdateIsFinished(written, declared) == written = declared

\* a variant that answers a request without firmwareURL with 200
HandleUpdateFirmwareNoURLAccepted ==
  /\ pc = "loop_client"
  /\ events < budget
  /\ events' = events + 1
  /\ calls' = <<"send:200">>
  /\ request' = [uri |-> "/update_firmware"]
  /\ ledResponse' = ledResponse
  /\ pc' = "loop_net"
  /\ UNCHANGED <<fixed, now, eeprom, ramVars, wifiVars, linkVars, physVars,
                 heldFor, strip, submitted, ota, idleTicks>>

\* POST /update_firmware without the argument firmwareURL
HandleUpdateFirmwareNoURL ==
  /\ pc = "loop_client"
  /\ events < budget
  /\ events' = events + 1
  /\ calls' = <<"send:400">>
  /\ request' = [uri |-> "/update_firmware"]
  /\ ledResponse' = ledResponse
  /\ pc' = "loop_net"
  /\ UNCHANGED <<fixed, now, eeprom, ramVars, wifiVars, linkVars, physVars,
                 heldFor, strip, submitted, ota, idleTicks>>

\* a variant of performOTAUpdate without the connection check
OtaStartWithoutLinkCheck(httpCode, contentLength, canBegin) ==
  IF httpCode # HTTP_CODE_OK
    THEN /\ calls' = <<"send:200", "http.GET", "http.end">>
         /\ ota' = [NoOta EXCEPT !.httpCode = httpCode]
         /\ pc' = "loop_net"
    ELSE IF ~(contentLength > 0)
    THEN /\ calls' = <<"send:200", "http.GET", "http.end">>
         /\ ota' = [NoOta EXCEPT !.httpCode = httpCode,
                                 !.declared = contentLength]
         /\ pc' = "loop_net"
    ELSE IF ~canBegin
    THEN /\ calls' = <<"send:200", "http.GET", "Update.begin", "http.end">>
         /\ ota' = [NoOta EXCEPT !.httpCode = httpCode,
                                 !.declared = contentLength]
         /\ pc' = "loop_net"
    ELSE /\ calls' = <<"send:200", "http.GET", "Update.begin">>
         /\ ota' = [NoOta EXCEPT !.httpCode = httpCode,
                                 !.declared = contentLength, !.begun = TRUE]
         /\ pc' = "ota_stream"

\* a variant of performOTAUpdate that writes whatever Update.begin returned
OtaStartWithoutReservation(httpCode, contentLength, canBegin) ==
  IF ~linkUp
    THEN /\ calls' = <<"send:200">>
         /\ ota' = NoOta
         /\ pc' = "loop_net"
    ELSE IF httpCode # HTTP_CODE_OK
    THEN /\ calls' = <<"send:200", "http.GET", "http.end">>
         /\ ota' = [NoOta EXCEPT !.httpCode = httpCode]
         /\ pc' = "loop_net"
    ELSE IF ~(contentLength > 0)
    THEN /\ calls' = <<"send:200", "http.GET", "http.end">>
         /\ ota' = [NoOta EXCEPT !.httpCode = httpCode,
                                 !.declared = contentLength]
         /\ pc' = "loop_net"
    ELSE /\ calls' = <<"send:200", "http.GET", "Update.begin">>
         /\ ota' = [NoOta EXCEPT !.httpCode = httpCode,
                                 !.declared = contentLength,
                                 !.begun = canBegin]
         /\ pc' = "ota_stream"

\* handleUpdateFirmware with a firmwareURL, and performOTAUpdate up to
\* Update.writeStream
OtaStart(httpCode, contentLength, canBegin) ==
  IF ~linkUp
    THEN /\ calls' = <<"send:200">>
         /\ ota' = NoOta
         /\ pc' = "loop_net"
    ELSE IF httpCode # HTTP_CODE_OK
    THEN /\ calls' = <<"send:200", "http.GET", "http.end">>
         /\ ota' = [NoOta EXCEPT !.httpCode = httpCode]
         /\ pc' = "loop_net"
    ELSE IF ~(contentLength > 0)
    THEN /\ calls' = <<"send:200", "http.GET", "http.end">>
         /\ ota' = [NoOta EXCEPT !.httpCode = httpCode,
                                 !.declared = contentLength]
         /\ pc' = "loop_net"
    ELSE IF ~canBegin
    THEN /\ calls' = <<"send:200", "http.GET", "Update.begin", "http.end">>
         /\ ota' = [NoOta EXCEPT !.httpCode = httpCode,
                                 !.declared = contentLength]
         /\ pc' = "loop_net"
    ELSE /\ calls' = <<"send:200", "http.GET", "Update.begin">>
         /\ ota' = [NoOta EXCEPT !.httpCode = httpCode,
                                 !.declared = contentLength, !.begun = TRUE]
         /\ pc' = "ota_stream"

HandleUpdateFirmware ==
  /\ pc = "loop_client"
  /\ events < budget
  /\ events' = events + 1
  /\ \E httpCode \in HttpCodes, contentLength \in ContentLengths,
        canBegin \in BOOLEAN :
       OtaStart(httpCode, contentLength, canBegin)
  /\ request' = [uri |-> "/update_firmware", firmwareURL |-> S_url]
  /\ ledResponse' = ledResponse
  /\ UNCHANGED <<fixed, now, eeprom, ramVars, wifiVars, linkVars, physVars,
                 heldFor, strip, submitted, idleTicks>>

\* a variant that ignores how much was written
OtaRestartsWithoutEnd(written, declared, verifyOk) == verifyOk

\* whether performOTAUpdate restarts after Update.end()
OtaRestarts(written, declared, verifyOk) ==
  UpdateEnd(written, declared, verifyOk) /\ UpdateIsFinished(written, declared)

OtaSession(written, verifyOk) ==
  [ota EXCEPT !.written = written, !.endCalled = TRUE,
              !.endOk = UpdateEnd(written, ota.declared, verifyOk)]

\* Update.writeStream, Update.end and ESP.restart
OtaStreamRestart ==
  /\ pc = "ota_stream"
  /\ \E written \in WrittenOf(ota.declared), verifyOk \in BOOLEAN :
       /\ OtaRestarts(written, ota.declared, verifyOk)
       /\ ota' = OtaSession(written, verifyOk)
  /\ calls' = calls \o <<"Update.writeStream", "Update.end", "ESP.restart">>
  /\ Restart
  /\ UNCHANGED <<eeprom, erasesThisPress>>

\* a variant that returns without Update.end()
OtaStreamFailedWithoutEnd ==
  /\ pc = "ota_stream"
  /\ \E written \in WrittenOf(ota.declared), verifyOk \in BOOLEAN :
       /\ ~OtaRestarts(written, ota.declared, verifyOk)
       /\ ota' = [ota EXCEPT !.written = written]
  /\ calls' = calls \o <<"Update.writeStream", "http.end">>
  /\ \E d \in DownloadMs : Pass(d)
  /\ pc' = "loop_net"
  /\ UNCHANGED <<fixed, eeprom, ramVars, wifiVars, physVars, strip, served, events, idleTicks>>

\* a variant in which a failed update drops the device to AP mode
OtaStreamFailedFallsBack ==
  /\ pc = "ota_stream"
  /\ \E written \in WrittenOf(ota.declared), verifyOk \in BOOLEAN :
       /\ ~OtaRestarts(written, ota.declared, verifyOk)
       /\ ota' = OtaSession(written, verifyOk)
  /\ calls' = calls \o <<"Update.writeStream", "Update.end", "http.end">>
  /\ \E d \in DownloadMs : Pass(d)
  /\ isAPMode' = TRUE
  /\ pc' = "loop_net"
  /\ UNCHANGED <<fixed, eeprom, ap_ssid, credVars, monitorVars, previousMillis,
                 ledState, ledVars, retries, attemptStart, wifiVars, physVars,
                 strip, served, events, idleTicks>>

\* Update.writeStream and Update.end, then back to loop()
OtaStreamFailed ==
  /\ pc = "ota_stream"
  /\ \E written \in WrittenOf(ota.declared), verifyOk \in BOOLEAN :
       /\ ~OtaRestarts(written, ota.declared, verifyOk)
       /\ ota' = OtaSession(written, verifyOk)
  /\ calls' = calls \o <<"Update.writeStream", "Update.end", "http.end">>
  /\ \E d \in DownloadMs : Pass(d)
  /\ pc' = "loop_net"
  /\ UNCHANGED <<fixed, eeprom, ramVars, wifiVars, physVars, strip, served,
                 events, idleTicks>>

(* ------------------------- the rest of loop() ------------------------- *)
\* the iteration ends and the next one is observed LoopTickMs later
EndIteration ==
  /\ Pass(LoopTickMs)
  /\ idleTicks' = idleTicks + 1
  /\ pc' = "loop_button"

LoopBlink ==
  /\ pc = "loop_net"
  /\ isAPMode
  /\ blinkLED(now)
  /\ EndIteration
  /\ UNCHANGED <<fixed, ap_ssid, eeprom, credVars, isAPMode, wifiVars, monitorVars,
                 physVars, ledVars, retries, attemptStart, calls, served,
                 ota, events>>

LoopAttached ==
  /\ pc = "loop_net"
  /\ ~isAPMode
  /\ linkUp
  /\ EndIteration
  /\ UNCHANGED <<fixed, ap_ssid, eeprom, credVars, isAPMode, wifiVars, monitorVars,
                 physVars, blinkVars, ledVars, retries, attemptStart, calls,
                 served, ota, events>>

\* alpha11: the wait loop starts without a new WiFi.begin
ReconnectBegin ==
  /\ pc = "loop_net"
  /\ build = "alpha11"
  /\ ~isAPMode
  /\ ~linkUp
  /\ attemptStart' = now
  /\ calls' = Log(calls, "WiFi.status")
  /\ pc' = "recover"
  /\ UNCHANGED <<fixed, ap_ssid, now, eeprom, credVars, isAPMode, wifiVars, linkVars,
                 monitorVars, physVars, heldFor, blinkVars, ledVars, retries,
                 served, ota, events, idleTicks>>

\* alpha15: WiFi.begin with the credentials in RAM, then the wait loop
ReconnectBeginAgain ==
  /\ pc = "loop_net"
  /\ build = "alpha15"
  /\ ~isAPMode
  /\ ~linkUp
  /\ staConfig' = Creds(home_ssid, home_password)
  /\ joinIn' \in JoinOutcomes
  /\ attemptStart' = now
  /\ calls' = calls \o <<"WiFi.status", "WiFi.begin">>
  /\ pc' = "recover"
  /\ UNCHANGED <<fixed, ap_ssid, now, eeprom, credVars, isAPMode, apActive,
                 linkUp, monitorVars, physVars, heldFor, blinkVars, ledVars,
                 retries, served, ota, events, idleTicks>>

ReconnectPoll ==
  /\ pc = "recover"
  /\ build = "alpha11"
  /\ ~linkUp
  /\ now - attemptStart < ATTACH_TIMEOUT_MS
  /\ Pass(POLL_DELAY_MS)
  /\ blinkWiFiAttemptLED(now + POLL_DELAY_MS)
  /\ calls' = Log(calls, "WiFi.status")
  /\ UNCHANGED <<pc, retries>>
  /\ PollFrame

ReconnectPollUnbounded ==
  /\ pc = "recover"
  /\ build = "alpha15"
  /\ ~linkUp
  /\ now - attemptStart < MaxPolls * POLL_DELAY_MS
  /\ Pass(POLL_DELAY_MS)
  /\ blinkWiFiAttemptLED(now + POLL_DELAY_MS)
  /\ calls' = Log(calls, "WiFi.status")
  /\ UNCHANGED <<pc, retries>>
  /\ PollFrame

\* a variant that leaves the strip as the blink left it
ReconnectedWithoutGreen ==
  /\ pc = "recover"
  /\ linkUp
  /\ calls' = calls \o <<"MDNS.begin">>
  /\ EndIteration
  /\ UNCHANGED <<fixed, ap_ssid, eeprom, credVars, isAPMode, apActive, staConfig,
                 monitorVars, physVars, blinkVars, ledVars,
                 retries, attemptStart, served, ota, events>>

Reconnected ==
  /\ pc = "recover"
  /\ linkUp
  /\ strip' = Shown(Green)
  /\ calls' = calls \o <<"MDNS.begin", "strip.show">>
  /\ EndIteration
  /\ UNCHANGED <<fixed, ap_ssid, eeprom, credVars, isAPMode, apActive, staConfig,
                 monitorVars, physVars, previousMillis, ledState, ledVars,
                 retries, attemptStart, served, ota, events>>

ReconnectTimeout ==
  /\ pc = "recover"
  /\ build = "alpha11"
  /\ ~linkUp
  /\ now - attemptStart >= ATTACH_TIMEOUT_MS
  /\ \E mdnsOk \in BOOLEAN : startAPMode(mdnsOk, "loop_button")
  /\ calls' = calls \o <<"softAP", "MDNS.begin">>
  /\ UNCHANGED <<fixed, ap_ssid, now, eeprom, credVars, staConfig, linkVars,
                 monitorVars, physVars, heldFor, blinkVars, ledVars, retries,
                 attemptStart, served, ota, events, idleTicks>>

(* --------------------------- specification ---------------------------- *)
Next ==
  \/ ButtonPress
  \/ ButtonRelease
  \/ LinkDrop
  \/ SetupToAP
  \/ SetupToWiFi
  \/ SetupWiFiPoll
  \/ SetupWiFiPollUnbounded
  \/ SetupWiFiConnected
  \/ SetupWiFiTimeout
  \/ MonitorButtonErase
  \/ MonitorButton
  \/ NoRequest
  \/ HandleConnectJson
  \/ HandleConnectForm
  \/ HandleConnectRejected
  \/ ConnectPoll
  \/ ConnectSucceeded
  \/ ConnectFailed
  \/ HandleUpdateFirmwareNoURL
  \/ HandleUpdateFirmware
  \/ OtaStreamRestart
  \/ OtaStreamFailed
  \/ LoopBlink
  \/ LoopAttached
  \/ ReconnectBegin
  \/ ReconnectBeginAgain
  \/ ReconnectPoll
  \/ ReconnectPollUnbounded
  \/ Reconnected
  \/ ReconnectTimeout

Spec == Init /\ [][Next]_vars

\* the same program with room for one more environment event
InitHold == InitWith(MaxEvents + 1)

SpecHold == InitHold /\ [][Next]_vars

(* ----------------- the device left alone with its button --------------- *)
\* no control request arrives and a pressed button is never released; the
\* thread of control runs whenever it can, the surroundings act or not
\* what the surroundings do
LiveEnvironment ==
  \/ ButtonPress
  \/ LinkDrop
  \/ LinkDropLong

\* what setup() and loop() do
LiveProgram ==
  \/ SetupToAP
  \/ SetupToWiFi
  \/ SetupWiFiPoll
  \/ SetupWiFiPollUnbounded
  \/ SetupWiFiConnected
  \/ SetupWiFiTimeout
  \/ MonitorButtonErase
  \/ MonitorButton
  \/ NoRequest
  \/ LoopBlink
  \/ LoopAttached
  \/ ReconnectBegin
  \/ ReconnectBeginAgain
  \/ ReconnectPoll
  \/ ReconnectPollUnbounded
  \/ Reconnected
  \/ ReconnectTimeout

NextLive == LiveEnvironment \/ LiveProgram

SpecLive == Init /\ [][NextLive]_vars /\ WF_vars(LiveProgram)

(* ------------------- the credential store on its own ------------------- *)
\* saveCredentials and loadCredentials applied to a store and credentials
\* drawn from the whole range of lengths
SsidLengths == 1..31
PasswordLengths == 0..63
LongCreds == Creds(Str(31, 7), Str(63, 90))
\* a store whose ssid length byte exceeds the field
OverlongSsidStore == SaveCredentials(ZeroStore, Str(40, 3), Str(8, 60))
StorePriors ==
  { ZeroStore, ErasedFlash,
    SaveCredentials(ZeroStore, LongCreds.ssid, LongCreds.password),
    OverlongSsidStore }

InitStore ==
  /\ build = "alpha11"
  /\ mac = DeviceMac
  /\ ap_ssid = <<>>
  /\ budget = 0
  /\ pc = "store"
  /\ now = 0
  /\ eeprom \in StorePriors
  /\ \E n \in SsidLengths, m \in PasswordLengths :
       submitted = Creds(Str(n, 0), Str(m, 40))
  /\ request = NoArgs
  /\ ledResponse = NoResponse
  /\ home_ssid = submitted.ssid
  /\ home_password = submitted.password
  /\ isAPMode = FALSE
  /\ apActive = FALSE
  /\ staConfig = NoCreds
  /\ linkUp = FALSE
  /\ joinIn = 0
  /\ buttonPressStartTime = 0
  /\ credentialsCleared = FALSE
  /\ button = "up"
  /\ heldFor = 0
  /\ erasesThisPress = 0
  /\ previousMillis = 0
  /\ ledState = FALSE
  /\ strip = Solid(Off)
  /\ ledIsOn = FALSE
  /\ ledColor = Off
  /\ ledBrightness = 255
  /\ retries = 0
  /\ attemptStart = 0
  /\ calls = <<>>
  /\ ota = NoOta
  /\ events = 0
  /\ idleTicks = 0

StoreFrame ==
  UNCHANGED <<fixed, ap_ssid, now, isAPMode, wifiVars, linkVars, monitorVars, physVars,
              heldFor, blinkVars, ledVars, retries, attemptStart, served,
              ota, events, idleTicks>>

\* saveCredentials()
StoreSave ==
  /\ pc = "store"
  /\ eeprom' = SaveCredentials(eeprom, home_ssid, home_password)
  /\ calls' = <<"saveCredentials", "EEPROM.commit">>
  /\ pc' = "saved"
  /\ UNCHANGED credVars
  /\ StoreFrame

\* loadCredentials() after a save
StoreLoad ==
  /\ pc = "saved"
  /\ home_ssid' = LoadCredentials(eeprom).ssid
  /\ home_password' = LoadCredentials(eeprom).password
  /\ calls' = <<"loadCredentials">>
  /\ pc' = "loaded"
  /\ UNCHANGED eeprom
  /\ StoreFrame

\* loadCredentials() of the store as found
StoreLoadAsFound ==
  /\ pc = "store"
  /\ home_ssid' = LoadCredentials(eeprom).ssid
  /\ home_password' = LoadCredentials(eeprom).password
  /\ calls' = <<"loadCredentials">>
  /\ pc' = "loaded_as_found"
  /\ UNCHANGED eeprom
  /\ StoreFrame

NextStore == StoreSave \/ StoreLoad \/ StoreLoadAsFound

SpecStore == InitStore /\ [][NextStore]_vars

(* ------------------------ the device under /led ----------------------- *)
\* the same device with /led as the only traffic: no button, no link loss
InitLed == InitWith(MaxEvents + 1)

NextLed ==
  \/ SetupToAP
  \/ SetupToWiFi
  \/ SetupWiFiPoll
  \/ SetupWiFiPollUnbounded
  \/ SetupWiFiConnected
  \/ SetupWiFiTimeout
  \/ MonitorButton
  \/ NoRequest
  \/ HandleLEDControl
  \/ HandleLEDControlBadJson
  \/ HandleLEDControlNoBody
  \/ HandleLEDStatus
  \/ LoopBlink
  \/ LoopAttached

SpecLed == InitLed /\ [][NextLed]_vars

(* ------------------- setup() over hardware addresses ------------------- *)
\* power-on and setup() of a device with any of the addresses in Macs
InitSsid == InitDevice(0, Macs)

NextSsid == SetupToAP \/ SetupToWiFi

SpecSsid == InitSsid /\ [][NextSsid]_vars

(* ------------------------------- claims -------------------------------- *)
\* the place of the first e in the call record c; 0 when it is not there
Pos(c, e) ==
  LET at == {i \in 1..Len(c) : c[i] = e}
  IN IF at = {} THEN 0 ELSE CHOOSE i \in at : \A j \in at : i <= j
Called(e) == Pos(calls, e) > 0
Before(a, b) == Called(a) /\ Called(b) /\ Pos(calls, a) < Pos(calls, b)

\* C1: performOTAUpdate restarts only after Update.end() succeeded with the
\* whole declared length written; when the bytes written differ from the
\* declared length the device does not restart.
UpdateAtomicity ==
  /\ Called("ESP.restart") =>
       /\ ota.begun /\ ota.endCalled /\ ota.endOk
       /\ ota.declared > 0
       /\ ota.written = ota.declared
       /\ Before("Update.end", "ESP.restart")
  /\ (ota.endCalled /\ ota.written # ota.declared) =>
       /\ ~Called("ESP.restart")
       /\ pc = "boot" => Called("clearCredentials")

UpdateIncompleteSeen ==
  /\ pc = "loop_net"
  /\ ota.endCalled
  /\ ota.written > 0
  /\ ota.written < ota.declared
  /\ Called("Update.end")

\* C2: saveCredentials followed by loadCredentials gives back the ssid and
\* the passphrase that were saved, for every ssid of 1..31 bytes and every
\* passphrase of 0..63 bytes, whatever the store held before.
CredentialRoundTrip ==
  pc = "loaded" =>
    /\ home_ssid = submitted.ssid
    /\ home_password = submitted.password

ShortOverLongLoaded ==
  /\ pc = "loaded"
  /\ Len(submitted.ssid) = 1
  /\ Len(submitted.password) = 0
  /\ home_ssid = submitted.ssid
  /\ eeprom[5] = LongCreds.ssid[5]

\* C3: loadCredentials of a store whose ssid or passphrase length byte
\* exceeds the field returns empty credentials and reads no index outside
\* the region.
CorruptStore(store) ==
  \/ store[0] > 31
  \/ EepromRead(store, 1 + store[0]) > 63

CorruptStoreLoadsEmpty ==
  (pc = "loaded_as_found" /\ CorruptStore(eeprom)) =>
    /\ home_ssid = <<>>
    /\ home_password = <<>>
    /\ LoadReadIndices(eeprom) \subseteq Addr

\* C4: a connection attempt in which the link never comes up ends after a
\* bounded number of status polls: the waits of setupWiFi and of loop() last
\* no longer than the 30 s timeout, the wait of handleConnect no more than
\* 20 polls.
AttemptIsBounded ==
  /\ pc \in {"setup_attach", "recover"} =>
       now - attemptStart <= ATTACH_TIMEOUT_MS
  /\ pc = "connect_wait" => retries <= CONNECT_RETRIES

\* C5: handleConnect persists the submitted credentials, then tears down
\* the access point, then starts the attempt with those credentials; no
\* attempt starts before the credentials are committed.
ConnectOrder ==
  /\ pc = "connect_wait" =>
       /\ Before("saveCredentials", "softAPdisconnect")
       /\ Before("softAPdisconnect", "WiFi.begin")
       /\ Before("EEPROM.commit", "WiFi.begin")
       /\ LoadCredentials(eeprom) = submitted
       /\ staConfig = submitted
       /\ ~apActive
       /\ ~isAPMode
  /\ (Called("saveCredentials") /\ Called("WiFi.begin")) =>
       Before("EEPROM.commit", "WiFi.begin")

ConnectAttemptStarted ==
  /\ pc = "connect_wait"
  /\ retries = 1
  /\ submitted = Creds(S_home, S_secret123)
  /\ staConfig = submitted

\* C6: the store changes only in a credential submission (to the encoding
\* of what was submitted) and in the long-press erase (to all zeros); no
\* timeout, link loss, recovery, fallback or update attempt changes it.
StoreChangesOnlyBySaveOrErase ==
  [][eeprom' # eeprom =>
       \/ /\ pc = "loop_client"
          /\ pc' = "connect_wait"
          /\ Called("saveCredentials")'
          /\ eeprom' = SaveCredentials(eeprom, submitted'.ssid,
                                       submitted'.password)
       \/ /\ pc = "loop_button"
          /\ Called("clearCredentials")'
          /\ eeprom' = ZeroStore]_vars

CredentialsKeptAfterTimeout ==
  /\ pc = "loop_button"
  /\ isAPMode
  /\ now - attemptStart >= ATTACH_TIMEOUT_MS
  /\ LoadCredentials(eeprom) = Creds(S_home, S_secret123)
  /\ home_ssid = S_home

\* C7: while the button stays pressed clearCredentials is called at most
\* once.
EraseOncePerPress == erasesThisPress <= 1

\* C8: clearCredentials is called only when the button has been down
\* without a release for more than 3000 ms.
JustErased == pc = "boot" /\ Called("clearCredentials")

EraseNeedsContinuousHold == JustErased => heldFor > HOLD_MS

\* C9: clearCredentials zeroes the whole region and commits it before the
\* restart, the restart follows in the same step, and the boot that finds
\* the zeroed region loads empty credentials and enters Provisioning.
EraseEndsInCleanRestart ==
  [][/\ (Called("clearCredentials")' /\ calls' # calls) =>
          /\ eeprom' = ZeroStore
          /\ pc' = "boot"
          /\ Before("EEPROM.commit", "esp_restart")'
     /\ (pc = "boot" /\ pc' # "boot" /\ eeprom = ZeroStore) =>
          /\ home_ssid' = <<>>
          /\ home_password' = <<>>
          /\ isAPMode'
          /\ apActive']_vars

ProvisioningAfterErase ==
  /\ pc = "loop_button"
  /\ erasesThisPress = 1
  /\ button = "down"
  /\ eeprom = ZeroStore
  /\ isAPMode
  /\ home_ssid = <<>>

\* C10: setup() enters Provisioning exactly when the stored ssid is empty,
\* and attempts Attach for every stored credential with a non-empty ssid.
BootDecision ==
  [][(pc = "boot" /\ pc' # "boot") =>
       /\ isAPMode' <=> (LoadCredentials(eeprom).ssid = <<>>)
       /\ (pc' = "setup_attach") <=> (LoadCredentials(eeprom).ssid # <<>>)]_vars

\* C11: the SSID that setup() stores for startAPMode is the product prefix,
\* '_' and the last 6 hexadecimal characters of the MAC address, so that a
\* device whose MAC differs in one of the last 3 bytes has another SSID.
LastSixHex(m) == HexByte(m[4]) \o HexByte(m[5]) \o HexByte(m[6])

ApSsidIsPrefixAndLastSixHex ==
  pc # "boot" =>
    /\ ap_ssid = SsidPrefix(build) \o LastSixHex(mac)
    /\ \A m \in Macs :
         LastSixHex(m) # LastSixHex(mac) => createUniqueSSID(build, m) # ap_ssid

\* C12: once handleConnect has accepted a submission and waits for the
\* link, it has sent the success response, and sent it before the first
\* status poll.
ConnectRespondsBeforeOutcome ==
  pc = "connect_wait" =>
    /\ Called("send:200")
    /\ Called("WiFi.status") => Before("send:200", "WiFi.status")

\* C13: after handleConnect has handled a JSON body whose members ssid and
\* password hold s and p, the store holds (s, p): loadCredentials returns
\* (s, p).
JsonConnectWith(keys) ==
  /\ pc = "connect_wait"
  /\ "plain" \in DOMAIN request
  /\ request["uri"] = "/connect"
  /\ DOMAIN request["plain"] = keys

UpdateInvoked == pc = "loop_client" /\ "firmwareURL" \in DOMAIN request'

ReserveBeforeWrite ==
  /\ Called("Update.writeStream") =>
       /\ ota.httpCode = HTTP_CODE_OK
       /\ ota.declared > 0
       /\ ota.begun
       /\ Before("http.GET", "Update.begin")
       /\ Before("Update.begin", "Update.writeStream")
  /\ ota.written > 0 =>
       ota.httpCode = HTTP_CODE_OK /\ ota.declared > 0 /\ ota.begun
  /\ (Called("http.GET") /\
      (ota.httpCode # HTTP_CODE_OK \/ ota.declared <= 0 \/ ~ota.begun)) =>
       /\ ~Called("Update.writeStream")
       /\ ota.written = 0
       /\ pc # "ota_stream"
       /\ Called("http.end")

WrittenAfterReservation ==
  /\ pc = "loop_net"
  /\ Called("Update.writeStream")
  /\ ota.begun
  /\ ota.written = ota.declared
  /\ ~ota.endOk

\* C16: a run of performOTAUpdate in which Update.begin succeeded calls
\* Update.end exactly once, after the write and before it returns or
\* restarts, whatever number of bytes was written.
Count(c, e) == Cardinality({i \in 1..Len(c) : c[i] = e})

FinalizeFollowsReservation ==
  (Called("Update.begin") /\ ota.begun /\ pc # "ota_stream") =>
    /\ ota.endCalled
    /\ Count(calls, "Update.end") = 1
    /\ Before("Update.writeStream", "Update.end")
    /\ Called("ESP.restart") \/ Called("http.end")
    /\ Called("ESP.restart") => Before("Update.end", "ESP.restart")
    /\ Called("http.end") => Before("Update.end", "http.end")

FinalizedBeforeRestart ==
  /\ pc = "boot"
  /\ Called("ESP.restart")
  /\ ota.begun
  /\ Count(calls, "Update.end") = 1

\* C17: an update attempt that fails (no network, fetch failed, invalid
\* size, no space, incomplete write, finalize failed) goes back to loop()
\* without a restart, and leaves the firmware version, the connectivity
\* state, the stored credentials and the indicator as they were.
UpdateFailureIsNonFatal ==
  [][/\ (UpdateInvoked \/ pc = "ota_stream") =>
          /\ pc' \in {"loop_net", "ota_stream", "boot"}
          /\ pc' = "boot" => (ota'.endCalled /\ ota'.endOk)
          /\ pc' # "boot" =>
               UNCHANGED <<build, eeprom, home_ssid, home_password, isAPMode,
                           apActive, staConfig, linkUp, strip, ledState,
                           ledIsOn, ledColor, ledBrightness>>
     /\ (UpdateInvoked /\
         (~linkUp \/ ota'.httpCode # HTTP_CODE_OK \/ ota'.declared <= 0
            \/ ~ota'.begun)) =>
          pc' = "loop_net" /\ ~Called("ESP.restart")'
     /\ (pc = "ota_stream" /\ ota'.endCalled /\ ~ota'.endOk) =>
          pc' = "loop_net" /\ ~Called("ESP.restart")']_vars

UpdateFailedStillAttached ==
  /\ pc = "loop_net"
  /\ ota.endCalled
  /\ ~ota.endOk
  /\ ota.written = 0
  /\ linkUp
  /\ ~isAPMode
  /\ strip = Solid(Green)

\* C18: a request to /update_firmware with a firmwareURL gets one response,
\* the 200 sent before performOTAUpdate issues the GET, and nothing after
\* it; a request without firmwareURL gets a 400 and starts no update.
UpdateRequestServed ==
  /\ "uri" \in DOMAIN request
  /\ request["uri"] = "/update_firmware"
  /\ pc \in {"loop_net", "ota_stream"} \/ (pc = "boot" /\ Called("ESP.restart"))

UpdateRespondsOnceFirst ==
  /\ (UpdateRequestServed /\ "firmwareURL" \in DOMAIN request) =>
       /\ calls[1] = "send:200"
       /\ Count(calls, "send:200") = 1
       /\ Count(calls, "send:400") = 0
       /\ Called("http.GET") => Before("send:200", "http.GET")
  /\ (UpdateRequestServed /\ "firmwareURL" \notin DOMAIN request) =>
       /\ calls = <<"send:400">>
       /\ ota = NoOta
       /\ pc = "loop_net"

UpdateAnsweredThenStreaming ==
  /\ pc = "ota_stream"
  /\ request = [uri |-> "/update_firmware", firmwareURL |-> S_url]
  /\ calls = <<"send:200", "http.GET", "Update.begin">>

(* ------------------------------ C19, C20 ------------------------------ *)
\* the step that serves POST /led with the JSON body doc
LedPost(doc) ==
  /\ pc = "loop_client"
  /\ request' = [uri |-> "/led", plain |-> doc]

\* the step that serves GET /led
LedGet ==
  /\ pc = "loop_client"
  /\ request' = [uri |-> "/led", method |-> "GET"]

\* the colour stored after the step holds every in-range member of c
ColourStored(c) ==
  /\ ("r" \in DOMAIN c /\ c["r"] \in 0..255) => ledColor'[1] = c["r"]
  /\ ("g" \in DOMAIN c /\ c["g"] \in 0..255) => ledColor'[2] = c["g"]
  /\ ("b" \in DOMAIN c /\ c["b"] \in 0..255) => ledColor'[3] = c["b"]
  /\ ("w" \in DOMAIN c /\ c["w"] \in 0..255) => ledColor'[4] = c["w"]

\* C19: power-off retains but does not apply colour.  A POST /led whose body
\* is state off leaves ledIsOn false, every pixel off and the stored colour
\* and brightness as they were; GET /led reports isOn, brightness and colour
\* as stored; a colour or brightness command served while off stores its
\* values and leaves every pixel as it was.
PowerOffRetainsColour ==
  [][/\ LedPost([state |-> "off"]) =>
          /\ ledIsOn' = FALSE
          /\ strip' = Solid(Off)
          /\ ledColor' = ledColor
          /\ ledBrightness' = ledBrightness
     /\ LedGet =>
          ledResponse' = [isOn |-> ledIsOn,
                          brightness |-> Map(ledBrightness, 0, 255, 0, 100),
                          color |-> ledColor]
     /\ \A doc \in LedBodies :
          (LedPost(doc) /\ ~ledIsOn /\ "state" \notin DOMAIN doc) =>
            /\ strip' = strip
            /\ ledIsOn' = FALSE
            /\ "brightness" \in DOMAIN doc =>
                 ledBrightness' = Map(doc["brightness"], 0, 100, 0, 255)
            /\ "color" \in DOMAIN doc => ColourStored(doc["color"])]_vars

\* C20: off is exclusive of other fields.  A POST /led whose body holds
\* state off together with brightness or color turns every pixel off and
\* leaves the stored brightness and the stored colour as they were.
OffIsExclusive ==
  [][\A doc \in LedBodies :
       (/\ LedPost(doc)
        /\ "state" \in DOMAIN doc
        /\ doc["state"] = "off"
        /\ DOMAIN doc # {"state"}) =>
         /\ ledIsOn' = FALSE
         /\ strip' = Solid(Off)
         /\ ledBrightness' = ledBrightness
         /\ ledColor' = ledColor]_vars

(* ------------------------------ C21, C22 ------------------------------ *)
\* C21: a POST /led served in Provisioning is accepted and stored, and the
\* pixels stay as the connectivity blink left them.
LedKeepsConnectivityBlink ==
  [][\A doc \in LedBodies :
       (LedPost(doc) /\ isAPMode) =>
         /\ strip' = strip
         /\ ("state" \in DOMAIN doc /\ doc["state"] = "on") => ledIsOn']_vars

\* a request the interface calls malformed
OutOfRange(c) == \E k \in DOMAIN c : c[k] \notin 0..255
MalformedLed(doc) ==
  \/ doc = BadJson
  \/ "state" \in DOMAIN doc /\ doc["state"] \notin {"on", "off"}
  \/ "brightness" \in DOMAIN doc /\ doc["brightness"] \notin 0..100
  \/ "color" \in DOMAIN doc /\ OutOfRange(doc["color"])
Malformed(req) ==
  /\ "uri" \in DOMAIN req
  /\ \/ /\ req["uri"] = "/led"
        /\ "plain" \in DOMAIN req
        /\ MalformedLed(req["plain"])
     \/ /\ req["uri"] = "/connect"
        /\ IF "plain" \in DOMAIN req
             THEN ~({"ssid", "password"} \subseteq DOMAIN req["plain"])
             ELSE ~({"ssid", "password"} \subseteq DOMAIN req)

\* C22: a malformed control request is answered with a client error and
\* leaves the stored credentials, the connectivity mode, the access point
\* and the indicator state as they were.
MalformedRequestMutatesNothing ==
  [][(pc = "loop_client" /\ Malformed(request')) =>
       /\ calls' = <<"send:400">>
       /\ UNCHANGED <<eeprom, credVars, isAPMode, apActive, ledVars>>]_vars

(* ------------------------------ C23, C24 ------------------------------ *)
Attached ==
  /\ pc \in {"loop_button", "loop_client", "loop_net", "ota_stream"}
  /\ ~isAPMode
  /\ linkUp

\* C23: a device that lost its link and whose network becomes reachable
\* again returns to Attached, unless the button is pressed meanwhile.
OutageSelfHeals ==
  (pc = "recover" /\ joinIn > 0 /\ button = "up")
    ~> (Attached \/ button = "down")

\* once loop() runs in Provisioning, only a served /connect or a restart
\* ends it: the runs that stop in Provisioning at the last observed
\* iteration stay there
ProvisioningIsLeftOnlyByConnect ==
  [][(isAPMode /\ ~isAPMode') =>
       (pc' = "boot" \/ (pc = "loop_client" /\ pc' = "connect_wait"))]_vars

\* the waits that never read the button: the wait of alpha.15 for a link
\* that does not come up, and the wait of startAPMode after a failed
\* MDNS.begin; no step leaves them
WaitWithoutExit ==
  \/ pc = "hang"
  \/ /\ build = "alpha15"
     /\ pc \in {"setup_attach", "recover"}
     /\ ~linkUp
     /\ joinIn = 0
WaitWithoutExitIsClosed ==
  [][WaitWithoutExit => (WaitWithoutExit' /\ eeprom' = eeprom)]_vars

\* C24: a button that is pressed and never released leads to the erase of
\* the stored credentials and the restart, within the iterations of loop()
\* that are observed.
HeldButtonErases ==
  (button = "down") ~> (JustErased \/ idleTicks = MaxIdleTicks)

(* --------------------------- C25 .. C28, C30 --------------------------- *)
\* C25: between iterations of loop(), isAPMode implies that the access
\* point is up.
ProvisioningHasAccessPoint ==
  (pc = "loop_button" /\ isAPMode) => apActive

\* the step serves a /led request
LedServed ==
  /\ pc = "loop_client"
  /\ "uri" \in DOMAIN request'
  /\ request'["uri"] = "/led"

RecoveryReissuesAttempt ==
  [][/\ (pc = "loop_net" /\ pc' = "recover") =>
          /\ Called("WiFi.begin")'
          /\ staConfig' = Creds(home_ssid, home_password)
     /\ (pc = "recover" /\ pc' = "loop_button" /\ linkUp) =>
          Called("MDNS.begin")']_vars

\* C28: a poll of an attempt that comes interval after the last toggle
\* toggles the attaching blink; the loop advances the provisioning blink
\* only in Provisioning; two toggles are at least interval apart.
BlinkOnEveryPoll ==
  [][/\ (/\ pc \in {"setup_attach", "recover", "connect_wait"}
         /\ pc' = pc
         /\ now' > now
         /\ now' - previousMillis >= interval) =>
          /\ ledState' # ledState
          /\ previousMillis' = now'
          /\ strip' = Shown(IF ledState' THEN Blue ELSE Off)
     /\ (pc = "loop_net" /\ ledState' # ledState /\ pc' # "boot") => isAPMode
     /\ (ledState' # ledState /\ pc' # "boot") =>
          previousMillis' - previousMillis >= interval]_vars

\* C30: startAPMode returns.
StartAPModeReturns == pc # "hang"

(* -------------------------------- C29 --------------------------------- *)
\* C29: after a POST /led with brightness b in 0..100 the response and the
\* body of GET /led report brightness b; 0 is stored as 0 and 100 as 255.
BrightnessReportedAsSet ==
  [][\A b \in BrightnessLevels :
       (LedPost([brightness |-> b]) /\ build = "alpha15") =>
         /\ ledResponse'["brightness"] = b
         /\ LedStatus(build, ledIsOn', ledColor', ledBrightness')["brightness"]
              = b
         /\ b = 0 => ledBrightness' = 0
         /\ b = 100 => ledBrightness' = 255]_vars

=============================================================================
